---------------------------- MODULE Spec2Model ----------------------------
(***************************************************************************)
(* DoctorMate AI: the specialty mapper, the DoctorMate API client and the  *)
(* two analysis endpoints (skin lesion, symptoms) as state machines.       *)
(*                                                                         *)
(*   SpecMapper  calls of SpecialtyMapper's two static methods             *)
(*   SpecClient  calls of DoctorMateAPIService.get_specialty and           *)
(*               get_recommended_doctors against upstream outcomes         *)
(*   Spec        requests served by the event loop through skin_check and  *)
(*               symptoms_check                                            *)
(***************************************************************************)
EXTENDS Integers, Sequences, FiniteSets, TLC

VARIABLES
    mapper,             \* the last SpecialtyMapper call: its arguments and its result
    client,             \* the last DoctorMateAPIService call: upstream outcome and result
    environ,            \* os.environ: OPENAI_API_KEY
    files,              \* the model file and skin_rules.json on disk
    _skin_service,      \* skin_service._skin_service: None (Null) or the instance
    _symptoms_service,  \* symptoms_service._symptoms_service: None (Null) or the instance
    reqs,               \* the requests in flight: each handler's position and locals
    stats               \* counts: requests served, calls of get_symptoms_service, runs
                        \* of the API key check, SkinAnalysisService instances built

vars == <<mapper, client, environ, files, _skin_service, _symptoms_service, reqs, stats>>

server == <<environ, files, _skin_service, _symptoms_service, reqs, stats>>

(***************************************************************************)
(* Strings.  Python's str.lower, the substring test `in' and str.split.    *)
(***************************************************************************)
UPPERCASE == "ABCDEFGHIJKLMNOPQRSTUVWXYZ"
LOWERCASE == "abcdefghijklmnopqrstuvwxyz"

\* One character of str.lower(): an upper-case letter maps to its lower-case
\* letter, every other character to itself.
LowerChar(c) ==
    IF \E i \in 1..Len(UPPERCASE) : SubSeq(UPPERCASE, i, i) = c
    THEN LET i == CHOOSE j \in 1..Len(UPPERCASE) : SubSeq(UPPERCASE, j, j) = c
         IN  SubSeq(LOWERCASE, i, i)
    ELSE c

RECURSIVE lower(_)
lower(s) ==
    IF Len(s) = 0 THEN ""
    ELSE LowerChar(SubSeq(s, 1, 1)) \o lower(SubSeq(s, 2, Len(s)))

\* keyword in combined
Contains(combined, keyword) ==
    \E i \in 1..(Len(combined) - Len(keyword) + 1) :
        SubSeq(combined, i, i + Len(keyword) - 1) = keyword

\* keywords.split("|"): cur is the piece being read, from position i on
RECURSIVE SplitFrom(_, _, _, _)
SplitFrom(s, sep, i, cur) ==
    IF i > Len(s) THEN <<cur>>
    ELSE IF SubSeq(s, i, i) = sep
         THEN <<cur>> \o SplitFrom(s, sep, i + 1, "")
         ELSE SplitFrom(s, sep, i + 1, cur \o SubSeq(s, i, i))

split(s, sep) == SplitFrom(s, sep, 1, "")

(***************************************************************************)
(* SpecialtyMapper                                                         *)
(***************************************************************************)
CARDIOLOGY  == "a1111111-a1a1-a1a1-a1a1-a1a1a1a1a1a1"
NEUROLOGY   == "5b05c49a-288f-48f3-b684-6d505c58d276"
DERMATOLOGY == "b2222222-b2b2-b2b2-b2b2-b2b2b2b2b2b2"
PEDIATRICS  == "bb79c512-c722-4e5a-a1fc-c9699359b636"
GENERAL     == "fa12fdd9-0a6a-4330-814c-17fd31fbd637"

\* A dict: its keys in insertion order
SKIN_LESION_KEYS == <<"mel", "bcc", "akiec", "bkl", "df", "nv", "vasc">>

SKIN_LESION_MAP ==
    [k \in {SKIN_LESION_KEYS[i] : i \in 1..Len(SKIN_LESION_KEYS)} |-> DERMATOLOGY]

\* A dict iterates in insertion order: the items, in the order declared
SYMPTOM_KEYWORDS_MAP ==
    << [keywords |-> "heart|chest pain|palpitation|cardiac",     specialty_id |-> CARDIOLOGY],
       [keywords |-> "brain|headache|seizure|neurological|nerve", specialty_id |-> NEUROLOGY],
       [keywords |-> "skin|rash|acne|eczema|dermatological",      specialty_id |-> DERMATOLOGY],
       [keywords |-> "child|infant|pediatric|baby",               specialty_id |-> PEDIATRICS] >>

\* dict.get(diagnosis_code, default)
get_specialty_for_skin_lesion_general(diagnosis_code) ==
    IF diagnosis_code \in DOMAIN SKIN_LESION_MAP
    THEN SKIN_LESION_MAP[diagnosis_code]
    ELSE GENERAL

get_specialty_for_skin_lesion(diagnosis_code) ==
    IF diagnosis_code \in DOMAIN SKIN_LESION_MAP
    THEN SKIN_LESION_MAP[diagnosis_code]
    ELSE DERMATOLOGY

\* for keyword in keywords.split("|"): if keyword in combined: return ...
RECURSIVE AnyKeywordIn(_, _, _)
AnyKeywordIn(kws, j, combined) ==
    IF j > Len(kws) THEN FALSE
    ELSE IF Contains(combined, kws[j]) THEN TRUE
    ELSE AnyKeywordIn(kws, j + 1, combined)

\* for keywords, specialty_id in SYMPTOM_KEYWORDS_MAP.items(): ...
RECURSIVE ScanKeywordsMap(_, _)
ScanKeywordsMap(i, combined) ==
    IF i > Len(SYMPTOM_KEYWORDS_MAP) THEN GENERAL
    ELSE IF AnyKeywordIn(split(SYMPTOM_KEYWORDS_MAP[i].keywords, "|"), 1, combined)
         THEN SYMPTOM_KEYWORDS_MAP[i].specialty_id
         ELSE ScanKeywordsMap(i + 1, combined)

\* The scan that lets the last matching entry win
RECURSIVE ScanKeywordsMapLast(_, _)
ScanKeywordsMapLast(i, combined) ==
    IF i < 1 THEN GENERAL
    ELSE IF AnyKeywordIn(split(SYMPTOM_KEYWORDS_MAP[i].keywords, "|"), 1, combined)
         THEN SYMPTOM_KEYWORDS_MAP[i].specialty_id
         ELSE ScanKeywordsMapLast(i - 1, combined)

get_specialty_for_symptoms_last(symptoms, diagnosis) ==
    ScanKeywordsMapLast(Len(SYMPTOM_KEYWORDS_MAP),
                        lower(symptoms) \o " " \o lower(diagnosis))

get_specialty_for_symptoms(symptoms, diagnosis) ==
    LET symptoms_lower  == lower(symptoms)
        diagnosis_lower == lower(diagnosis)
        combined        == symptoms_lower \o " " \o diagnosis_lower
    IN  ScanKeywordsMap(1, combined)

(***************************************************************************)
(* JSON values as Python sees them, and the Python operations the client   *)
(* applies to them.  An operation yields Ok(value) or Raise(exception).    *)
(***************************************************************************)
Null        == [kind |-> "null"]
Str(s)      == [kind |-> "str", s |-> s]
List(items) == [kind |-> "list", items |-> items]
Dict(flds)  == [kind |-> "dict", fields |-> flds]
NoFields    == [k \in {} |-> Null]

Ok(v)    == [exc |-> "none", val |-> v]
Raise(e) == [exc |-> e, val |-> Null]

RECURSIVE SetToSeq(_)
SetToSeq(S) ==
    IF S = {} THEN <<>>
    ELSE LET x == CHOOSE y \in S : TRUE IN <<x>> \o SetToSeq(S \ {x})

\* v.get(key, default): only a dict has .get
py_get(v, key, default) ==
    IF v.kind = "dict"
    THEN Ok(IF key \in DOMAIN v.fields THEN v.fields[key] ELSE default)
    ELSE Raise("AttributeError")

\* for x in v: a list yields its items, a str its characters, a dict its keys
py_iter(v) ==
    CASE v.kind = "list" -> Ok(v.items)
      [] v.kind = "str"  -> Ok([i \in 1..Len(v.s) |-> Str(SubSeq(v.s, i, i))])
      [] v.kind = "dict" -> Ok([i \in 1..Cardinality(DOMAIN v.fields) |->
                                   Str(SetToSeq(DOMAIN v.fields)[i])])
      [] OTHER           -> Raise("TypeError")

\* The end of the slice v[:limit] of a sequence of length n
SliceEnd(n, limit) ==
    IF limit >= 0 THEN (IF limit < n THEN limit ELSE n)
    ELSE (IF n + limit > 0 THEN n + limit ELSE 0)

\* v[:] in place of v[:limit]: the list is not cut
py_slice_uncut(v, limit) ==
    CASE v.kind = "list" -> Ok(v)
      [] v.kind = "str"  -> Ok(v)
      [] OTHER           -> Raise("TypeError")

\* v[:limit]: lists and strs can be sliced
py_slice(v, limit) ==
    CASE v.kind = "list" -> Ok(List(SubSeq(v.items, 1, SliceEnd(Len(v.items), limit))))
      [] v.kind = "str"  -> Ok(Str(SubSeq(v.s, 1, SliceEnd(Len(v.s), limit))))
      [] OTHER           -> Raise("TypeError")

\* response.json()
response_json(body) ==
    IF body.kind = "malformed" THEN Raise("JSONDecodeError") ELSE Ok(body)

(***************************************************************************)
(* DoctorMateAPIService.  An upstream outcome o is what client.get met:    *)
(* o.transport is "ok" or the exception httpx raised, o.status_code and    *)
(* o.body the response.                                                    *)
(***************************************************************************)
\* except httpx.HTTPError as e: only the transport's exceptions are caught
CatchesTransportOnly(exc) == exc \in {"ConnectError", "ReadTimeout"}

\* client.get(f"{self.BASE_URL}/Specialties", ...)
SpecialtiesGET == "GET /Specialties"

\* client.get(f"{self.BASE_URL}/Specialties/{specialty_id}/doctors", ...)
DoctorsGET == "GET /Specialties/{id}/doctors"

\* No except clause: every exception of the try block leaves the method
CatchesNothing(exc) == FALSE

\* except Exception as e: every exception of the try block is caught
Catches(exc) == exc # "none"

\* The dict get_specialty builds from a matching entry
SpecialtyInfo(specialty) ==
    Dict([id          |-> py_get(specialty, "id", Null).val,
          name        |-> py_get(specialty, "name", Null).val,
          description |-> py_get(specialty, "description", Null).val,
          imageUrl    |-> py_get(specialty, "imageUrl", Null).val])

\* for specialty in specialties: if specialty.get("id") == specialty_id: return {...}
RECURSIVE FindSpecialty(_, _, _)
FindSpecialty(specialties, i, specialty_id) ==
    IF i > Len(specialties) THEN Ok(Null)
    ELSE LET got == py_get(specialties[i], "id", Null)
         IN  IF got.exc # "none" THEN got
             ELSE IF got.val.kind = "str" /\ got.val.s = specialty_id
                  THEN Ok(SpecialtyInfo(specialties[i]))
                  ELSE FindSpecialty(specialties, i + 1, specialty_id)

\* The try block of get_specialty
get_specialty_try(specialty_id, o) ==
    IF o.transport # "ok" THEN Raise(o.transport)
    ELSE IF o.status_code # 200 THEN Ok(Null)
    ELSE LET data == response_json(o.body)
         IN  IF data.exc # "none" THEN data
             ELSE LET specialties == py_get(data.val, "data", List(<<>>))
                  IN  IF specialties.exc # "none" THEN specialties
                      ELSE LET it == py_iter(specialties.val)
                           IN  IF it.exc # "none" THEN it
                               ELSE FindSpecialty(it.val, 1, specialty_id)

\* A call's end: what it returned (value), whether it raised to its caller
\* instead, and the exception its except clause caught and printed
CallEnd(r, fallback) ==
    IF r.exc = "none" THEN [raised |-> FALSE, caught |-> "none", value |-> r.val]
    ELSE IF Catches(r.exc) THEN [raised |-> FALSE, caught |-> r.exc, value |-> fallback]
    ELSE [raised |-> TRUE, caught |-> "none", value |-> Null]

get_specialty(specialty_id, o) == CallEnd(get_specialty_try(specialty_id, o), Null)

\* The dict get_recommended_doctors builds from one doctor
DoctorInfo(doctor) ==
    Dict([id              |-> py_get(doctor, "id", Null).val,
          fullName        |-> py_get(doctor, "fullName", Null).val,
          imageUrl        |-> py_get(doctor, "imageUrl", Null).val,
          consultationFee |-> py_get(doctor, "consultationFee", Null).val,
          address         |-> py_get(doctor, "address", Null).val,
          workingTime     |-> py_get(doctor, "workingTime", Null).val,
          qualifications  |-> py_get(doctor, "qualifications", Null).val])

\* [ {...} for doctor in doctors[:limit] ]
RECURSIVE FormatDoctors(_, _)
FormatDoctors(doctors, i) ==
    IF i > Len(doctors) THEN Ok(<<>>)
    ELSE IF py_get(doctors[i], "id", Null).exc # "none"
         THEN py_get(doctors[i], "id", Null)
         ELSE LET rest == FormatDoctors(doctors, i + 1)
              IN  IF rest.exc # "none" THEN rest
                  ELSE Ok(<<DoctorInfo(doctors[i])>> \o rest.val)

\* The try block of get_recommended_doctors
get_recommended_doctors_try(specialty_id, limit, o) ==
    IF o.transport # "ok" THEN Raise(o.transport)
    ELSE IF o.status_code # 200 THEN Ok(List(<<>>))
    ELSE LET data == response_json(o.body)
         IN  IF data.exc # "none" THEN data
             ELSE LET inner == py_get(data.val, "data", Dict(NoFields))
                  IN  IF inner.exc # "none" THEN inner
                      ELSE LET doctors == py_get(inner.val, "doctors", List(<<>>))
                           IN  IF doctors.exc # "none" THEN doctors
                               ELSE LET cut == py_slice(doctors.val, limit)
                                    IN  IF cut.exc # "none" THEN cut
                                        ELSE LET it == py_iter(cut.val)
                                             IN  IF it.exc # "none" THEN it
                                                 ELSE LET out == FormatDoctors(it.val, 1)
                                                      IN  IF out.exc # "none" THEN out
                                                          ELSE Ok(List(out.val))

get_recommended_doctors(specialty_id, limit, o) ==
    CallEnd(get_recommended_doctors_try(specialty_id, limit, o), List(<<>>))

(***************************************************************************)
(* More of Python: numbers, truth values, str methods, item assignment.    *)
(***************************************************************************)
Num(n)             == [kind |-> "int", n |-> n]
Frac(whole, frac) == [kind |-> "float", whole |-> whole, tenths |-> frac]

\* if v: / v or default
truthy(v) ==
    CASE v.kind = "null"  -> FALSE
      [] v.kind = "str"   -> Len(v.s) > 0
      [] v.kind = "list"  -> Len(v.items) > 0
      [] v.kind = "dict"  -> DOMAIN v.fields # {}
      [] v.kind = "int"   -> v.n # 0
      [] OTHER            -> TRUE

startswith(s, prefix) == Len(s) >= Len(prefix) /\ SubSeq(s, 1, Len(prefix)) = prefix

\* s.replace(old, new): every occurrence, left to right
RECURSIVE py_replace(_, _, _)
py_replace(s, old, new) ==
    IF Len(s) < Len(old) THEN s
    ELSE IF SubSeq(s, 1, Len(old)) = old
         THEN new \o py_replace(SubSeq(s, Len(old) + 1, Len(s)), old, new)
         ELSE SubSeq(s, 1, 1) \o py_replace(SubSeq(s, 2, Len(s)), old, new)

\* d[key] = v
py_setitem(d, key, v) ==
    IF d.kind = "dict"
    THEN Ok(Dict([k \in DOMAIN d.fields \cup {key} |-> IF k = key THEN v ELSE d.fields[k]]))
    ELSE Raise("TypeError")

\* round(n / d) for d > 0: to the nearest integer, a tie to the even one
round(n, d) ==
    LET q == n \div d
        rem == n % d
    IN  IF 2 * rem < d THEN q
        ELSE IF 2 * rem > d THEN q + 1
        ELSE IF q % 2 = 0 THEN q ELSE q + 1

\* np.argmax: the first index of the greatest value
argmax(probs) ==
    CHOOSE i \in 1..Len(probs) :
        /\ \A j \in 1..Len(probs) : probs[j] <= probs[i]
        /\ \A j \in 1..(i - 1) : probs[j] < probs[i]

DIGITS == "0123456789"

IsDigit(c) == \E i \in 1..Len(DIGITS) : SubSeq(DIGITS, i, i) = c

DigitValue(c) == (CHOOSE i \in 1..Len(DIGITS) : SubSeq(DIGITS, i, i) = c) - 1

RECURSIVE DigitsValue(_, _)
DigitsValue(s, acc) ==
    IF Len(s) = 0 THEN acc
    ELSE DigitsValue(SubSeq(s, 2, Len(s)), 10 * acc + DigitValue(SubSeq(s, 1, 1)))

(***************************************************************************)
(* main.py: the token of the Authorization header.                         *)
(***************************************************************************)
\* token = None
\* if authorization and authorization.startswith("Bearer "):
\*     token = authorization.replace("Bearer ", "")
extract_token(authorization) ==
    IF truthy(authorization) /\ startswith(authorization.s, "Bearer ")
    THEN Str(py_replace(authorization.s, "Bearer ", ""))
    ELSE Null

(***************************************************************************)
(* models.py: the response models.  The framework validates what a route   *)
(* returns against the route's response_model: a field of the wrong type   *)
(* or out of range fails the response (status 500), a key the model does   *)
(* not declare is left out of the response.                                *)
(***************************************************************************)
SeverityLevel == {"Mild", "Moderate", "Severe"}

\* Field(..., ge=0, le=100) without its bounds
confidence_unbounded(n) == TRUE

\* Field(..., ge=0, le=100)
confidence_in_range(n) == n >= 0 /\ n <= 100

\* An int field takes an int, a float without a fraction, a str of digits
coerce_int(v) ==
    CASE v.kind = "int" -> Ok(Num(v.n))
      [] v.kind = "float" -> IF v.tenths = 0 THEN Ok(Num(v.whole)) ELSE Raise("ValidationError")
      [] v.kind = "str" ->
            IF Len(v.s) > 0 /\ \A i \in 1..Len(v.s) : IsDigit(SubSeq(v.s, i, i))
            THEN Ok(Num(DigitsValue(v.s, 0)))
            ELSE Raise("ValidationError")
      [] OTHER -> Raise("ValidationError")

validate_str(v) == IF v.kind = "str" THEN Ok(v) ELSE Raise("ValidationError")

validate_confidence(v) ==
    LET c == coerce_int(v)
    IN  IF c.exc = "none" /\ confidence_in_range(c.val.n) THEN c ELSE Raise("ValidationError")

validate_severity(v) ==
    IF v.kind = "str" /\ v.s \in SeverityLevel THEN Ok(v) ELSE Raise("ValidationError")

validate_str_list(v) ==
    IF v.kind = "list" /\ \A i \in 1..Len(v.items) : v.items[i].kind = "str"
    THEN Ok(v) ELSE Raise("ValidationError")

validate_dict(v) == IF v.kind = "dict" THEN Ok(v) ELSE Raise("ValidationError")

\* The fields both response models declare, all required
CommonFields ==
    {"possible_diagnosis", "confidence", "severity", "description", "recommendations",
     "emergency_care", "disclaimer"}

SymptomsResponseData == CommonFields

SkinLesionResponseData == CommonFields \cup {"additional_info"}

validate_field(name, v) ==
    CASE name = "confidence"      -> validate_confidence(v)
      [] name = "severity"        -> validate_severity(v)
      [] name = "recommendations" -> validate_str_list(v)
      [] name = "additional_info" -> validate_dict(v)
      [] OTHER                    -> validate_str(v)

\* additional_info has a default (default_factory=dict); every other field is required
field_or_default(data, name) ==
    IF name \in DOMAIN data.fields THEN Ok(data.fields[name])
    ELSE IF name = "additional_info" THEN Ok(Dict(NoFields))
    ELSE Raise("ValidationError")

\* data validated as the model with the fields `model': the validated fields alone
validate_model(model, data) ==
    IF data.kind # "dict" THEN Raise("ResponseValidationError")
    ELSE IF \E name \in model :
               \/ field_or_default(data, name).exc # "none"
               \/ validate_field(name, field_or_default(data, name).val).exc # "none"
         THEN Raise("ResponseValidationError")
         ELSE Ok(Dict([name \in model |->
                          validate_field(name, field_or_default(data, name).val).val]))

response_model(endpoint) ==
    IF endpoint = "skin" THEN SkinLesionResponseData ELSE SymptomsResponseData

\* What the caller gets when the route returned ApiResponse(code=200, data=data)
respond(endpoint, data) ==
    LET v == validate_model(response_model(endpoint), data)
    IN  IF v.exc = "none" THEN [status |-> 200, data |-> v.val]
        ELSE [status |-> 500, data |-> Null]

\* symptoms_check: except ValueError -> 400, except Exception -> 500
symptoms_check_status(exc) ==
    IF exc \in {"ValueError", "JSONDecodeError"} THEN 400 ELSE 500

\* skin_check: except Exception -> 500
skin_check_status(exc) == 500

\* What the caller gets when the route raised HTTPException
fail(endpoint, exc) ==
    [status |-> IF endpoint = "skin" THEN skin_check_status(exc)
                ELSE symptoms_check_status(exc),
     data |-> Null]

(***************************************************************************)
(* SymptomsAnalysisService                                                 *)
(***************************************************************************)
\* __init__: self.api_key = os.getenv("OPENAI_API_KEY"); if not self.api_key: raise
SymptomsAnalysisService_init(env) ==
    IF ~truthy(env.OPENAI_API_KEY) THEN Raise("ValueError")
    ELSE Ok([kind |-> "service", api_key |-> env.OPENAI_API_KEY.s])

\* get_symptoms_service without the test: a new instance at every call
symptoms_service_always_built(instance) == TRUE

\* get_symptoms_service: if _symptoms_service is None
symptoms_service_missing(instance) == instance = Null

\* json.loads(response.choices[0].message.content)
json_loads(content) ==
    IF content.kind = "malformed" THEN Raise("JSONDecodeError") ELSE Ok(content)

\* except Exception as e: raise Exception(f"OpenAI API error: {str(e)}")
openai_api_error(exc) == "Exception"

\* analyze_symptoms from the provider's answer up to its first await or its end:
\*   next = "raise"            it raises exc
\*   next = "return"           it returns result
\*   next = "await_specialty"  it calls get_specialty(specialty_id)
analyze_symptoms_head(symptoms, token, llm) ==
    LET raise(e, mapping) ==
            [next |-> "raise", exc |-> openai_api_error(e), result |-> Null,
             specialty_id |-> "", mapping |-> mapping]
    IN
    IF llm.error THEN raise("APIConnectionError", FALSE)
    ELSE LET parsed == json_loads(llm.content)
         IN
         IF parsed.exc # "none" THEN raise(parsed.exc, FALSE)
         ELSE
         IF truthy(token)
         THEN LET diagnosis == py_get(parsed.val, "possible_diagnosis", Str(""))
              IN  IF diagnosis.exc # "none" THEN raise(diagnosis.exc, TRUE)
                  \* diagnosis.lower(): only a str has .lower
                  ELSE IF diagnosis.val.kind # "str" THEN raise("AttributeError", TRUE)
                  ELSE [next |-> "await_specialty", exc |-> "none", result |-> parsed.val,
                        mapping |-> FALSE,
                        specialty_id |->
                            get_specialty_for_symptoms(symptoms, diagnosis.val.s)]
         ELSE [next |-> "finish", exc |-> "none", result |-> parsed.val, specialty_id |-> "",
               mapping |-> FALSE]

\* result["specialty"] = specialty; result["recommended_doctors"] = recommended_doctors;
\* return result
analyze_symptoms_tail(result, specialty, recommended_doctors) ==
    LET a == py_setitem(result, "specialty", specialty)
    IN  IF a.exc # "none" THEN Raise(openai_api_error(a.exc))
        ELSE py_setitem(a.val, "recommended_doctors", recommended_doctors)

(***************************************************************************)
(* SkinAnalysisService                                                     *)
(***************************************************************************)
CLASS_NAMES == <<"akiec", "bcc", "bkl", "df", "mel", "nv", "vasc">>

\* get_skin_service without the test: a new instance at every call
skin_service_always_built(instance) == TRUE

\* get_skin_service: if _skin_service is None
skin_service_missing(instance) == instance = Null

\* __init__: the session of the model file and the knowledge base of skin_rules.json;
\* either file may fail to load
SkinAnalysisService_init(disk, id) ==
    IF ~disk.model_loads THEN Raise("NoSuchFile")
    ELSE IF disk.skin_rules.kind = "malformed" THEN Raise("JSONDecodeError")
    ELSE Ok([kind |-> "service", id |-> id, session |-> "models/MobileNetV2_best.onnx",
             knowledge_base |-> disk.skin_rules])

\* lesion_info.get(key, default), lesion_info being a dict
info(lesion_info, key, default) == py_get(lesion_info, key, default).val

\* The dict _format_prediction returns.  probs are in thousandths.
format_prediction(knowledge_base, probs, specialty, recommended_doctors) ==
    LET idx         == argmax(probs)
        diagnosis   == CLASS_NAMES[idx]
        confidence  == probs[idx]
        lesion_info == py_get(knowledge_base, diagnosis, Dict(NoFields)).val
    IN  Dict([possible_diagnosis  |-> info(lesion_info, "name", Str("Unknown")),
              confidence          |-> Num(round(confidence, 10)),
              severity            |-> info(lesion_info, "severity", Str("Mild")),
              description         |-> info(lesion_info, "description",
                                           Str("No description available.")),
              recommendations     |-> info(lesion_info, "recommendations", List(<<>>)),
              emergency_care      |-> info(lesion_info, "emergency_care",
                                           Str("Consult a healthcare provider if concerned.")),
              specialty           |-> specialty,
              recommended_doctors |-> recommended_doctors,
              additional_info     |->
                  Dict([diagnosis_code    |-> Str(diagnosis),
                        risk_factors      |-> info(lesion_info, "risk_factors", List(<<>>)),
                        symptoms          |-> info(lesion_info, "symptoms", List(<<>>)),
                        prognosis         |-> info(lesion_info, "prognosis",
                            Str("Please consult a dermatologist for proper assessment.")),
                        treatment_options |-> info(lesion_info, "treatment_options", List(<<>>)),
                        all_probabilities |->
                            Dict([c \in {CLASS_NAMES[i] : i \in 1..Len(CLASS_NAMES)} |->
                                    Num(probs[CHOOSE i \in 1..Len(CLASS_NAMES) :
                                                  CLASS_NAMES[i] = c])])]),
              disclaimer          |-> Str("This is an AI-generated assessment.")])

Malformed == [kind |-> "malformed"]

NoStats == [served |-> 0, symptoms_gets |-> 0, key_checks |-> 0, skin_inits |-> 0]

\* The server is not part of the mapper's and the client's specifications
ServerOff ==
    /\ environ = [OPENAI_API_KEY |-> Null]
    /\ files = [model_loads |-> FALSE, skin_rules |-> Malformed]
    /\ _skin_service = Null
    /\ _symptoms_service = Null
    /\ reqs = <<>>
    /\ stats = NoStats

(***************************************************************************)
(* Inputs of the mapper: texts built from a few fragments.                 *)
(***************************************************************************)
MaxFrags == 2

Fragments ==
    {"chest pain", "Chest", " Pain", "HEADACHE", "skin", "baby",
     "sweetheart", "fever", " "}

RECURSIVE TextsOfLen(_)
TextsOfLen(n) ==
    IF n = 0 THEN {""}
    ELSE {t \o f : t \in TextsOfLen(n - 1), f \in Fragments}

SymptomTexts == UNION {TextsOfLen(n) : n \in 0..MaxFrags}

DiagnosisTexts ==
    {"", "pain", "Migraine", "Nerve damage", "Eczema", "Cardiac arrest", "Infant colic"}

\* The seven codes of the table and two codes it does not hold
DiagnosisCodes ==
    {SKIN_LESION_KEYS[i] : i \in 1..Len(SKIN_LESION_KEYS)} \cup {"scc", ""}

MapperIdle == [op |-> "idle", symptoms |-> "", diagnosis |-> "", code |-> "", result |-> ""]

ClientIdle == [op |-> "idle"]

MapperInit == mapper = MapperIdle /\ client = ClientIdle /\ ServerOff

CallSymptomsMapper ==
    /\ mapper.op = "idle"
    /\ \E s \in SymptomTexts, d \in DiagnosisTexts :
          mapper' = [op |-> "symptoms", symptoms |-> s, diagnosis |-> d, code |-> "",
                     result |-> get_specialty_for_symptoms(s, d)]
    /\ UNCHANGED <<client, server>>

CallSkinMapper ==
    /\ mapper.op = "idle"
    /\ \E c \in DiagnosisCodes :
          mapper' = [op |-> "skin", symptoms |-> "", diagnosis |-> "", code |-> c,
                     result |-> get_specialty_for_skin_lesion(c)]
    /\ UNCHANGED <<client, server>>

MapperNext == CallSymptomsMapper \/ CallSkinMapper

SpecMapper == MapperInit /\ [][MapperNext]_vars

(***************************************************************************)
(* Inputs of the client: upstream outcomes.                                *)
(***************************************************************************)
MaxSpecialties == 2
MaxDoctors     == 4
MaxLimit       == 3

SeqsUpTo(S, n) == UNION {[1..k -> S] : k \in 0..n}

SpecialtyEntry(id, name) ==
    Dict([id |-> Str(id), name |-> Str(name), description |-> Str("about " \o name),
          imageUrl |-> Null])

\* Entries of the upstream list: whole ones, one that lacks fields, and two
\* values that are no objects
SpecialtyItems ==
    {SpecialtyEntry(DERMATOLOGY, "Dermatology"), SpecialtyEntry(CARDIOLOGY, "Cardiology"),
     Dict([id |-> Str(DERMATOLOGY)]), Str("x"), Null}

SpecialtiesBodies ==
    {Malformed, List(<<>>), Dict(NoFields), Dict([data |-> Null]),
     Dict([data |-> Str("abc")]), Dict([data |-> Dict([id |-> Str(DERMATOLOGY)])])}
    \cup {Dict([data |-> List(s)]) : s \in SeqsUpTo(SpecialtyItems, MaxSpecialties)}

DoctorEntry(id) ==
    Dict([id |-> Str(id), fullName |-> Str("Dr " \o id), imageUrl |-> Null,
          consultationFee |-> Str("100"), address |-> Str("Cairo"),
          workingTime |-> Str("9-5"), qualifications |-> Str("MD")])

DoctorItems == {DoctorEntry("d1"), DoctorEntry("d2"), Dict([id |-> Str("d3")]), Str("x")}

DoctorsBodies ==
    {Malformed, List(<<>>), Dict(NoFields), Dict([data |-> Null]),
     Dict([data |-> List(<<>>)]), Dict([data |-> Str("abc")]),
     Dict([data |-> Dict(NoFields)]), Dict([data |-> Dict([doctors |-> Null])]),
     Dict([data |-> Dict([doctors |-> Str("abcdef")])]),
     Dict([data |-> Dict([doctors |-> Dict([d1 |-> DoctorEntry("d1")])])])}
    \cup {Dict([data |-> Dict([doctors |-> List(s)])]) : s \in SeqsUpTo(DoctorItems, MaxDoctors)}

Outcomes(bodies) ==
    {[transport |-> t, status_code |-> 0, body |-> Malformed] :
        t \in {"ConnectError", "ReadTimeout"}}
    \cup {[transport |-> "ok", status_code |-> c, body |-> b] :
            c \in {204, 401, 404, 500}, b \in {Malformed, Dict(NoFields)}}
    \cup {[transport |-> "ok", status_code |-> 200, body |-> b] : b \in bodies}

ClientInit == mapper = MapperIdle /\ client = ClientIdle /\ ServerOff

CallGetSpecialty ==
    /\ client.op = "idle"
    /\ \E id \in {DERMATOLOGY, GENERAL}, o \in Outcomes(SpecialtiesBodies) :
          LET end == get_specialty(id, o)
          IN  client' = [op |-> "specialty", specialty_id |-> id, limit |-> 0, outcome |-> o,
                         raised |-> end.raised, caught |-> end.caught, value |-> end.value]
    /\ UNCHANGED <<mapper, server>>

CallGetRecommendedDoctors ==
    /\ client.op = "idle"
    /\ \E limit \in 0..MaxLimit, o \in Outcomes(DoctorsBodies) :
          LET end == get_recommended_doctors(DERMATOLOGY, limit, o)
          IN  client' = [op |-> "doctors", specialty_id |-> DERMATOLOGY, limit |-> limit,
                         outcome |-> o,
                         raised |-> end.raised, caught |-> end.caught, value |-> end.value]
    /\ UNCHANGED <<mapper, server>>

ClientNext == CallGetSpecialty \/ CallGetRecommendedDoctors

SpecClient == ClientInit /\ [][ClientNext]_vars

(***************************************************************************)
(* Upstream outcomes by kind: what the upstream contract calls a failure.  *)
(***************************************************************************)
\* The body's containers are not the ones the upstream contract names
WrongContainers(op, body) ==
    \/ body.kind # "dict"
    \/ /\ "data" \in DOMAIN body.fields
       /\ \/ op = "specialty" /\ body.fields.data.kind # "list"
          \/ op = "doctors" /\ body.fields.data.kind # "dict"
          \/ /\ op = "doctors"
             /\ body.fields.data.kind = "dict"
             /\ "doctors" \in DOMAIN body.fields.data.fields
             /\ body.fields.data.fields.doctors.kind # "list"

FailedOutcome(op, o) ==
    \/ o.transport # "ok"
    \/ o.status_code \notin 200..299
    \/ o.body.kind = "malformed"
    \/ WrongContainers(op, o.body)

(***************************************************************************)
(* The server: the process environment and its files, the two singleton    *)
(* services, and the requests the event loop is serving.  A handler runs   *)
(* from one await to the next without interruption; between two awaits of  *)
(* one request the loop may run any other request.                         *)
(***************************************************************************)
MaxServed == 2
NumReqs   == 2

\* limit=3 at both call sites of get_recommended_doctors
RecommendedLimit == 3

\* skin_rules.json, by its entries
Entry(name, severity) ==
    Dict([name |-> Str(name), severity |-> Str(severity),
          recommendations |-> List(<<Str("See a dermatologist")>>)])

Rules(mel, nv) ==
    Dict([c \in {"akiec", "bcc", "bkl", "df", "mel", "nv", "vasc"} |->
            CASE c = "mel" -> mel
              [] c = "nv"  -> nv
              [] c \in {"akiec", "bcc"} -> Entry(c, "Moderate")
              [] OTHER -> Entry(c, "Mild")])

\* A table with an entry per class; one whose mel entry names no severity level
\* of the response model; one that lacks the nv entry's fields and the df entry
KnowledgeBases ==
    {Rules(Entry("Melanoma", "Severe"), Entry("Melanocytic nevi", "Mild")),
     Rules(Entry("Melanoma", "High"), Entry("Melanocytic nevi", "Mild")),
     Dict([c \in {"akiec", "bcc", "bkl", "mel", "nv", "vasc"} |->
             IF c = "nv" THEN Dict(NoFields) ELSE Entry(c, "Severe")])}

OneHot(k, v) == [i \in 1..Len(CLASS_NAMES) |-> IF i = k THEN v ELSE 0]

\* The provider's answers: the reply the prompt asks for, and replies that differ
\* from it in one field
Reply(diagnosis, confidence, severity) ==
    Dict([possible_diagnosis |-> diagnosis, confidence |-> confidence, severity |-> severity,
          description |-> Str("Likely benign"), recommendations |-> List(<<Str("Rest")>>),
          emergency_care |-> Str("If it worsens"), disclaimer |-> Str("Not medical advice")])

GoodReply == Reply(Str("Migraine"), Num(85), Str("Moderate"))

Without(d, key) == Dict([k \in DOMAIN d.fields \ {key} |-> d.fields[k]])

Answer(content) == [error |-> FALSE, content |-> content]

ProviderError == [error |-> TRUE, content |-> Null]

GoodSpecialties ==
    [transport |-> "ok", status_code |-> 200,
     body |-> Dict([data |-> List(<<SpecialtyEntry(CARDIOLOGY, "Cardiology"),
                                    SpecialtyEntry(DERMATOLOGY, "Dermatology"),
                                    SpecialtyEntry(NEUROLOGY, "Neurology")>>)])]

GoodDoctors ==
    [transport |-> "ok", status_code |-> 200,
     body |-> Dict([data |-> Dict([doctors |-> List(<<DoctorEntry("d1"), DoctorEntry("d2"),
                                                      DoctorEntry("d3"), DoctorEntry("d4")>>)])])]

Unreachable == [transport |-> "ConnectError", status_code |-> 0, body |-> Malformed]

Status(code) == [transport |-> "ok", status_code |-> code, body |-> Dict(NoFields)]

NotJson == [transport |-> "ok", status_code |-> 200, body |-> Malformed]

\* What one request may meet
RichInputs ==
    [headers     |-> {Null, Str(""), Str("Bearer abc"), Str("Bearer "), Str("Basic abc"),
                      Str("bearer abc"), Str("Bearer Bearer ")},
     symptoms    |-> {"", "Chest pain", "itchy RASH", "tired"},
     images      |-> {TRUE, FALSE},
     outputs     |-> {OneHot(k, 1000) : k \in 1..Len(CLASS_NAMES)}
                     \cup {OneHot(5, v) : v \in {455, 995, 1004, 1500, -200}}
                     \cup {[i \in 1..Len(CLASS_NAMES) |-> v] : v \in {143, -200}},
     replies     |-> {ProviderError, Answer(Malformed), Answer(List(<<>>)), Answer(GoodReply),
                      Answer(Without(GoodReply, "possible_diagnosis")),
                      Answer(Without(GoodReply, "confidence")),
                      Answer(Without(GoodReply, "severity")),
                      Answer(Without(GoodReply, "description"))}
                     \cup {Answer(Reply(d, Num(85), Str("Moderate"))) :
                              d \in {Null, Num(42), Str("Eczema")}}
                     \cup {Answer(Reply(Str("Migraine"), c, Str("Moderate"))) :
                              c \in {Num(0), Num(100), Num(101), Num(150), Num(-5),
                                     Frac(85, 5), Frac(90, 0), Str("70"), Str("high"), Null}}
                     \cup {Answer(Reply(Str("Migraine"), Num(85), s)) :
                              s \in {Str("Mild"), Str("Severe"), Str("Critical"), Str("mild"), Null}},
     specialties |-> {Unreachable, Status(404), NotJson, GoodSpecialties},
     doctors     |-> {Unreachable, Status(500), NotJson, GoodDoctors}]

\* The same, cut down for several requests in flight at once
LeanInputs ==
    [headers     |-> {Null, Str("Bearer abc")},
     symptoms    |-> {"itchy RASH"},
     images      |-> {TRUE},
     outputs     |-> {OneHot(5, 995)},
     replies     |-> {ProviderError, Answer(GoodReply)},
     specialties |-> {Unreachable, GoodSpecialties},
     doctors     |-> {GoodDoctors}]

Idle ==
    [pc |-> "idle", endpoint |-> "none", authorization |-> Null, symptoms |-> "",
     token |-> Null, self |-> Null, probs |-> <<>>, result |-> Null, specialty_id |-> "",
     specialty |-> Dict(NoFields), calls |-> <<>>,
     map_failed |-> FALSE, spec_failed |-> FALSE, doc_failed |-> FALSE,
     returned |-> Ok(Null), response |-> [status |-> 0, data |-> Null]]

ServerInit(n, keys, rules) ==
    /\ environ \in {[OPENAI_API_KEY |-> k] : k \in keys}
    /\ files \in {[model_loads |-> FALSE, skin_rules |-> CHOOSE kb \in rules : TRUE]}
                 \cup {[model_loads |-> TRUE, skin_rules |-> kb] : kb \in rules}
    /\ _skin_service = Null
    /\ _symptoms_service = Null
    /\ reqs = [r \in 1..n |-> Idle]
    /\ stats = NoStats
    /\ mapper = MapperIdle
    /\ client = ClientIdle

\* The handler of request r ends: the route returned (or raised) `returned'
Done(req, returned) ==
    [req EXCEPT !.pc = "done",
                !.returned = returned,
                !.response = IF returned.exc = "none"
                             THEN respond(req.endpoint, returned.val)
                             ELSE fail(req.endpoint, returned.exc)]

CanArrive(r) == reqs[r].pc \in {"idle", "done"} /\ stats.served < MaxServed

\* SymptomsRequest: symptoms: str = Field(..., min_length=1)
SymptomsRequest_valid(symptoms) == Len(symptoms) >= 1

\* POST /ai/skin/check arrives: skin_check runs to `await preprocess_image(file)'
ArriveSkin(r, In) ==
    /\ CanArrive(r)
    /\ \E a \in In.headers :
          reqs' = [reqs EXCEPT ![r] = [Idle EXCEPT !.pc = "preprocess", !.endpoint = "skin",
                                                   !.authorization = a]]
    /\ stats' = [stats EXCEPT !.served = @ + 1]
    /\ UNCHANGED <<mapper, client, environ, files, _skin_service, _symptoms_service>>

\* preprocess_image returns or raises; skin_check goes on through get_skin_service,
\* predict and _format_prediction to the first call of the recommendation service,
\* or to its end
SkinPreprocessed(r, In) ==
    /\ reqs[r].pc = "preprocess"
    /\ \E image_ok \in In.images, probs \in In.outputs :
          LET req   == reqs[r]
              token == extract_token(req.authorization)
              build == skin_service_missing(_skin_service)
              made  == SkinAnalysisService_init(files, stats.skin_inits + 1)
              self  == IF build THEN made.val ELSE _skin_service
          IN  IF ~image_ok
              THEN /\ reqs' = [reqs EXCEPT ![r] = Done(req, Raise("UnidentifiedImageError"))]
                   /\ UNCHANGED <<_skin_service, stats>>
              ELSE IF build /\ made.exc # "none"
              THEN /\ reqs' = [reqs EXCEPT ![r] =
                                  Done([req EXCEPT !.token = token], Raise(made.exc))]
                   /\ UNCHANGED <<_skin_service, stats>>
              ELSE /\ _skin_service' = self
                   /\ stats' = [stats EXCEPT !.skin_inits = IF build THEN @ + 1 ELSE @]
                   /\ LET go == [req EXCEPT !.token = token, !.self = self, !.probs = probs,
                                     !.specialty_id =
                                         get_specialty_for_skin_lesion(CLASS_NAMES[argmax(probs)])]
                      IN  IF truthy(token)
                          THEN reqs' = [reqs EXCEPT ![r] =
                                          [go EXCEPT !.pc = "await_specialty",
                                                     !.calls = Append(@, SpecialtiesGET)]]
                          ELSE reqs' = [reqs EXCEPT ![r] =
                                          Done(go, Ok(format_prediction(self.knowledge_base, probs,
                                                          Dict(NoFields), List(<<>>))))]
    /\ UNCHANGED <<mapper, client, environ, files, _symptoms_service>>

\* POST /ai/symptoms/check arrives: the body is validated, symptoms_check runs through
\* get_symptoms_service to the await of the provider's answer in analyze_symptoms
ArriveSymptoms(r, In) ==
    /\ CanArrive(r)
    /\ \E a \in In.headers, s \in In.symptoms :
          LET req   == [Idle EXCEPT !.endpoint = "symptoms", !.authorization = a, !.symptoms = s]
              token == extract_token(a)
              build == symptoms_service_missing(_symptoms_service)
              made  == SymptomsAnalysisService_init(environ)
          IN  IF ~SymptomsRequest_valid(s)
              THEN /\ reqs' = [reqs EXCEPT ![r] =
                                  [req EXCEPT !.pc = "done",
                                              !.returned = Raise("RequestValidationError"),
                                              !.response = [status |-> 422, data |-> Null]]]
                   /\ stats' = [stats EXCEPT !.served = @ + 1]
                   /\ UNCHANGED _symptoms_service
              ELSE IF build /\ made.exc # "none"
              THEN /\ reqs' = [reqs EXCEPT ![r] =
                                  Done([req EXCEPT !.token = token], Raise(made.exc))]
                   /\ stats' = [stats EXCEPT !.served = @ + 1, !.symptoms_gets = @ + 1,
                                             !.key_checks = @ + 1]
                   /\ UNCHANGED _symptoms_service
              ELSE /\ reqs' = [reqs EXCEPT ![r] =
                                  [req EXCEPT !.pc = "await_llm", !.token = token,
                                              !.self = IF build THEN made.val
                                                       ELSE _symptoms_service]]
                   /\ stats' = [stats EXCEPT !.served = @ + 1, !.symptoms_gets = @ + 1,
                                             !.key_checks = IF build THEN @ + 1 ELSE @]
                   /\ _symptoms_service' = IF build THEN made.val ELSE _symptoms_service
    /\ UNCHANGED <<mapper, client, environ, files, _skin_service>>

\* The provider answers or fails; analyze_symptoms goes on to the first call of the
\* recommendation service, or to its end
LLMReturns(r, In) ==
    /\ reqs[r].pc = "await_llm"
    /\ \E llm \in In.replies :
          LET req  == reqs[r]
              head == analyze_symptoms_head(req.symptoms, req.token, llm)
          IN  CASE head.next = "raise" ->
                     reqs' = [reqs EXCEPT ![r] =
                                Done([req EXCEPT !.map_failed = head.mapping], Raise(head.exc))]
                [] head.next = "finish" ->
                     reqs' = [reqs EXCEPT ![r] =
                                Done([req EXCEPT !.result = head.result],
                                     analyze_symptoms_tail(head.result, Dict(NoFields),
                                                           List(<<>>)))]
                [] head.next = "await_specialty" ->
                     reqs' = [reqs EXCEPT ![r] =
                                [req EXCEPT !.pc = "await_specialty", !.result = head.result,
                                            !.specialty_id = head.specialty_id,
                                            !.calls = Append(@, SpecialtiesGET)]]
    /\ UNCHANGED <<mapper, client, environ, files, _skin_service, _symptoms_service, stats>>

\* The end of either service method once specialty and recommended_doctors are set
Finish(req, specialty, recommended_doctors) ==
    IF req.endpoint = "skin"
    THEN Done(req, Ok(format_prediction(req.self.knowledge_base, req.probs, specialty,
                                        recommended_doctors)))
    ELSE Done(req, analyze_symptoms_tail(req.result, specialty, recommended_doctors))

\* get_specialty returns: specialty = await api_service.get_specialty(specialty_id) or {}
\* and the call of get_recommended_doctors; an exception of get_specialty would be
\* printed by the except clause around both calls
SpecialtyReturns(r, In) ==
    /\ reqs[r].pc = "await_specialty"
    /\ \E o \in In.specialties :
          LET req == reqs[r]
              end == get_specialty(req.specialty_id, o)
          IN  IF end.raised
              THEN reqs' = [reqs EXCEPT ![r] =
                              Finish([req EXCEPT !.spec_failed = TRUE, !.doc_failed = TRUE],
                                     Dict(NoFields), List(<<>>))]
              ELSE reqs' = [reqs EXCEPT ![r] =
                              [req EXCEPT !.pc = "await_doctors",
                                          !.specialty = IF truthy(end.value) THEN end.value
                                                        ELSE Dict(NoFields),
                                          !.spec_failed = FailedOutcome("specialty", o),
                                          !.calls = Append(@, DoctorsGET)]]
    /\ UNCHANGED <<mapper, client, environ, files, _skin_service, _symptoms_service, stats>>

\* get_recommended_doctors returns: the method builds its result and returns
DoctorsReturns(r, In) ==
    /\ reqs[r].pc = "await_doctors"
    /\ \E o \in In.doctors :
          LET req == reqs[r]
              end == get_recommended_doctors(req.specialty_id, RecommendedLimit, o)
          IN  reqs' = [reqs EXCEPT ![r] =
                          Finish([req EXCEPT !.doc_failed = FailedOutcome("doctors", o)],
                                 req.specialty,
                                 IF end.raised THEN List(<<>>) ELSE end.value)]
    /\ UNCHANGED <<mapper, client, environ, files, _skin_service, _symptoms_service, stats>>

Step(r, In) ==
    \/ ArriveSkin(r, In)
    \/ SkinPreprocessed(r, In)
    \/ ArriveSymptoms(r, In)
    \/ LLMReturns(r, In)
    \/ SpecialtyReturns(r, In)
    \/ DoctorsReturns(r, In)

\* One request at a time, against everything a request may meet
Init == ServerInit(1, {Null, Str("sk-test")}, KnowledgeBases)

Next == Step(1, RichInputs)

Spec == Init /\ [][Next]_vars

\* NumReqs requests in flight at once
LoopInit ==
    ServerInit(NumReqs, {Null, Str("sk-test")},
               {Rules(Entry("Melanoma", "Severe"), Entry("Melanocytic nevi", "Mild"))})

LoopNext == \E r \in 1..NumReqs : Step(r, LeanInputs)

SpecLoop == LoopInit /\ [][LoopNext]_vars

(***************************************************************************)
(* C1: get_specialty_for_symptoms returns the identifier of the first      *)
(* entry of SYMPTOM_KEYWORDS_MAP, in declaration order, one of whose       *)
(* keywords occurs in lower(symptoms) + " " + lower(diagnosis); GENERAL    *)
(* when no entry has one; and CARDIOLOGY whenever the text holds           *)
(* "chest pain".                                                           *)
(***************************************************************************)
KeywordsOf(i) ==
    CASE i = 1 -> {"heart", "chest pain", "palpitation", "cardiac"}
      [] i = 2 -> {"brain", "headache", "seizure", "neurological", "nerve"}
      [] i = 3 -> {"skin", "rash", "acne", "eczema", "dermatological"}
      [] i = 4 -> {"child", "infant", "pediatric", "baby"}

IdOf(i) ==
    CASE i = 1 -> CARDIOLOGY [] i = 2 -> NEUROLOGY [] i = 3 -> DERMATOLOGY [] i = 4 -> PEDIATRICS

MatchingEntries(text) == {i \in 1..4 : \E k \in KeywordsOf(i) : Contains(text, k)}

C1_FirstMatchWins ==
    mapper.op = "symptoms" =>
        LET text == lower(mapper.symptoms) \o " " \o lower(mapper.diagnosis)
            hits == MatchingEntries(text)
        IN  /\ hits = {} => mapper.result = GENERAL
            /\ hits # {} =>
                 mapper.result = IdOf(CHOOSE i \in hits : \A j \in hits : i <= j)
            /\ (Contains(mapper.symptoms, "chest pain")
                  \/ Contains(mapper.diagnosis, "chest pain"))
                 => mapper.result = CARDIOLOGY

\* A text holding a Neurology keyword before "chest pain", mapped to Cardiology
C1_Witness ==
    /\ mapper.op = "symptoms"
    /\ mapper.symptoms = "HEADACHEchest pain"
    /\ mapper.diagnosis = "Eczema"
    /\ mapper.result = CARDIOLOGY

(***************************************************************************)
(* C9: get_specialty_for_skin_lesion returns DERMATOLOGY for every code,   *)
(* in the table or not, and every class name of the classifier is a key    *)
(* of the table.                                                           *)
(***************************************************************************)
C9_SkinAlwaysDermatology ==
    /\ mapper.op = "skin" => mapper.result = DERMATOLOGY
    /\ mapper.op = "skin" =>
          \A i \in 1..Len(CLASS_NAMES) : CLASS_NAMES[i] \in DOMAIN SKIN_LESION_MAP

\* A code the table does not hold, mapped by the default
C9_Witness ==
    /\ mapper.op = "skin"
    /\ mapper.code \notin DOMAIN SKIN_LESION_MAP
    /\ mapper.result = DERMATOLOGY

(***************************************************************************)
(* C4: whatever the upstream payload and the limit asked for (a count,     *)
(* 0 or more), the list get_recommended_doctors returns has at most limit  *)
(* entries.                                                                *)
(***************************************************************************)
C4_AtMostLimit ==
    client.op = "doctors" =>
        /\ ~client.raised
        /\ client.value.kind = "list"
        /\ Len(client.value.items) <= client.limit

\* The upstream sent more doctors than the limit, and limit of them came back
C4_Witness ==
    /\ client.op = "doctors"
    /\ client.limit > 0
    /\ client.outcome.status_code = 200
    /\ client.outcome.body.kind = "dict"
    /\ "data" \in DOMAIN client.outcome.body.fields
    /\ client.outcome.body.fields.data.kind = "dict"
    /\ "doctors" \in DOMAIN client.outcome.body.fields.data.fields
    /\ client.outcome.body.fields.data.fields.doctors.kind = "list"
    /\ Len(client.outcome.body.fields.data.fields.doctors.items) > client.limit
    /\ client.value.kind = "list"
    /\ Len(client.value.items) = client.limit

(***************************************************************************)
(* C7: get_specialty and get_recommended_doctors never raise to their      *)
(* caller, and on every failed upstream outcome (a transport error, a      *)
(* timeout, a status that is not 2xx, a body that is no JSON, a body whose *)
(* containers have the wrong type, and any body the processing raised on)  *)
(* get_specialty returns None and get_recommended_doctors the empty list.  *)
(***************************************************************************)
IsFallback(op, v) ==
    IF op = "specialty" THEN v.kind = "null" ELSE v.kind = "list" /\ Len(v.items) = 0

C7_NeverRaises ==
    client.op # "idle" =>
        /\ ~client.raised
        /\ (FailedOutcome(client.op, client.outcome) \/ client.caught # "none")
              => IsFallback(client.op, client.value)

\* A 200 body whose entries are no objects: the AttributeError was caught
C7_Witness ==
    /\ client.op = "specialty"
    /\ client.outcome.status_code = 200
    /\ client.caught = "AttributeError"
    /\ ~client.raised
    /\ client.value.kind = "null"

(***************************************************************************)
(* C2: with a bearer token, when the enrichment fails (mapping the         *)
(* specialty raised, or both calls of the recommendation service failed),  *)
(* predict and analyze_symptoms still return, and return what the same     *)
(* request returns without a token: the diagnosis with specialty = {} and  *)
(* recommended_doctors = [].                                               *)
(***************************************************************************)
\* What the service method returns to the same request made without a token
WithoutToken(req) ==
    IF req.endpoint = "skin"
    THEN Ok(format_prediction(req.self.knowledge_base, req.probs, Dict(NoFields), List(<<>>)))
    ELSE analyze_symptoms_tail(req.result, Dict(NoFields), List(<<>>))

EnrichmentFailed(req) ==
    /\ req.pc = "done"
    /\ truthy(req.token)
    /\ req.map_failed \/ (req.spec_failed /\ req.doc_failed)

C2_EnrichmentFailureSwallowed ==
    \A r \in DOMAIN reqs :
        EnrichmentFailed(reqs[r]) =>
            /\ reqs[r].returned.exc = "none"
            /\ reqs[r].returned = WithoutToken(reqs[r])
            /\ reqs[r].returned.val.fields.specialty = Dict(NoFields)
            /\ reqs[r].returned.val.fields.recommended_doctors = List(<<>>)

(***************************************************************************)
(* C3: without a usable bearer token, every successful response of either  *)
(* endpoint carries specialty = {} and recommended_doctors = [], neither   *)
(* null nor missing.                                                       *)
(***************************************************************************)
NoBearerToken(authorization) ==
    \/ authorization.kind = "null"
    \/ ~startswith(authorization.s, "Bearer ")
    \/ Len(authorization.s) = Len("Bearer ")

C3_EmptyEnrichmentWithoutToken ==
    \A r \in DOMAIN reqs :
        (/\ reqs[r].pc = "done"
         /\ reqs[r].response.status = 200
         /\ NoBearerToken(reqs[r].authorization)) =>
            /\ "specialty" \in DOMAIN reqs[r].response.data.fields
            /\ reqs[r].response.data.fields.specialty = Dict(NoFields)
            /\ "recommended_doctors" \in DOMAIN reqs[r].response.data.fields
            /\ reqs[r].response.data.fields.recommended_doctors = List(<<>>)

(***************************************************************************)
(* C5: in every result a caller gets (a response of status 200),           *)
(* confidence is an integer from 0 to 100 and severity one of Mild,        *)
(* Moderate, Severe, whatever the classifier and the provider put out.     *)
(***************************************************************************)
C5_ConfidenceAndSeverity ==
    \A r \in DOMAIN reqs :
        (reqs[r].pc = "done" /\ reqs[r].response.status = 200) =>
            LET data == reqs[r].response.data.fields
            IN  /\ data.confidence.kind = "int"
                /\ data.confidence.n \in 0..100
                /\ data.severity.kind = "str"
                /\ data.severity.s \in {"Mild", "Moderate", "Severe"}

\* The provider wrote the confidence as a string of digits; the caller got the number
C5_Witness ==
    \E r \in DOMAIN reqs :
        /\ reqs[r].pc = "done"
        /\ reqs[r].endpoint = "symptoms"
        /\ reqs[r].response.status = 200
        /\ reqs[r].result.kind = "dict"
        /\ reqs[r].result.fields.confidence = Str("70")
        /\ reqs[r].response.data.fields.confidence = Num(70)

(***************************************************************************)
(* C6: POST /ai/symptoms/check answers a failing request with 400 exactly  *)
(* when the symptom text is empty, and with 500 for every other failure    *)
(* (a reply that is no JSON, a provider outage, a missing API key).        *)
(***************************************************************************)
C6_400OnlyForEmptyText ==
    \A r \in DOMAIN reqs :
        (/\ reqs[r].pc = "done"
         /\ reqs[r].endpoint = "symptoms"
         /\ reqs[r].response.status # 200) =>
            /\ reqs[r].response.status = 400 => reqs[r].symptoms = ""
            /\ reqs[r].symptoms # "" => reqs[r].response.status = 500

(***************************************************************************)
(* C8, as claimed: the check for OPENAI_API_KEY runs once; no later        *)
(* request runs it again.                                                  *)
(***************************************************************************)
C8_CheckedOnce == stats.key_checks <= 1

(***************************************************************************)
(* C8, amended: get_symptoms_service runs the check inside the request     *)
(* that calls it, each time it finds no instance: every call runs it       *)
(* until one construction succeeds, and from then on no call runs it and   *)
(* the instance stays the same.                                            *)
(***************************************************************************)
C8_CheckedUntilBuilt ==
    [][/\ _symptoms_service # Null =>
             /\ stats'.key_checks = stats.key_checks
             /\ _symptoms_service' = _symptoms_service
       /\ (_symptoms_service = Null /\ stats'.symptoms_gets # stats.symptoms_gets) =>
             stats'.key_checks = stats.key_checks + 1]_vars

\* Two calls of get_symptoms_service, one run of the check
C8_Witness ==
    /\ _symptoms_service # Null
    /\ stats.symptoms_gets = 2
    /\ stats.key_checks = 1

(***************************************************************************)
(* C10: however many requests are in flight, SkinAnalysisService is built  *)
(* at most once; every handler that called get_skin_service holds that     *)
(* one instance; its session and knowledge base are the ones loaded.       *)
(***************************************************************************)
C10_OneSkinService ==
    /\ stats.skin_inits <= 1
    /\ _skin_service # Null =>
          /\ stats.skin_inits = 1
          /\ _skin_service.id = 1
          /\ _skin_service.session = "models/MobileNetV2_best.onnx"
          /\ _skin_service.knowledge_base = files.skin_rules
    /\ \A r \in DOMAIN reqs :
          (reqs[r].endpoint = "skin" /\ reqs[r].self # Null) => reqs[r].self = _skin_service

\* Two skin requests in flight at once, both on the instance the first one built
C10_Witness ==
    /\ stats.skin_inits = 1
    /\ \E r, q \in DOMAIN reqs :
          /\ r # q
          /\ reqs[r].endpoint = "skin" /\ reqs[r].pc = "await_specialty"
          /\ reqs[q].endpoint = "skin" /\ reqs[q].pc = "await_doctors"
          /\ reqs[r].self = _skin_service
          /\ reqs[q].self = _skin_service

(***************************************************************************)
(* C11 as stated: every request with a token issues exactly one GET for    *)
(* the specialty list followed by exactly one GET for the doctors (read    *)
(* of the requests the endpoint did not turn down as a client error).      *)
(***************************************************************************)
\* The header carries no token: none, not a Bearer header, or nothing left of it
\* once the handler has taken "Bearer " out
NoTokenIn(authorization) ==
    \/ authorization.kind = "null"
    \/ ~startswith(authorization.s, "Bearer ")
    \/ py_replace(authorization.s, "Bearer ", "") = ""

C11_TokenAlwaysCallsBoth ==
    \A r \in DOMAIN reqs :
        (/\ reqs[r].pc = "done"
         /\ reqs[r].response.status \notin {400, 422}
         /\ ~NoTokenIn(reqs[r].authorization)) =>
            reqs[r].calls = <<SpecialtiesGET, DoctorsGET>>

(***************************************************************************)
(* C11, amended: per request the recommendation service is called with no  *)
(* retry and in a fixed order.  The calls of a request are none, the        *)
(* specialty GET, or the specialty GET followed by the doctors GET, each    *)
(* at most once; a request without a token issues none; a request that     *)
(* fails before the enrichment step (rejected input, failure of the        *)
(* classifier or of the provider, the specialty mapping raising) issues    *)
(* none; a request with a token whose service call returns a result has    *)
(* issued exactly the specialty GET followed by the doctors GET, and once  *)
(* the specialty GET is answered the doctors GET is issued whatever the    *)
(* answer was.                                                             *)
(***************************************************************************)
C11_CallsInOrderNoRetry ==
    \A r \in DOMAIN reqs :
        LET req == reqs[r]
        IN  /\ req.calls \in {<<>>, <<SpecialtiesGET>>, <<SpecialtiesGET, DoctorsGET>>}
            /\ NoTokenIn(req.authorization) => req.calls = <<>>
            /\ req.pc = "await_specialty" => req.calls = <<SpecialtiesGET>>
            /\ req.pc = "await_doctors" => req.calls = <<SpecialtiesGET, DoctorsGET>>
            /\ req.pc = "done" =>
                  /\ req.calls # <<SpecialtiesGET>>
                  /\ req.returned.exc # "none" => req.calls = <<>>
                  /\ (/\ ~NoTokenIn(req.authorization)
                      /\ req.returned.exc = "none"
                      /\ req.returned.val # Null) =>
                         req.calls = <<SpecialtiesGET, DoctorsGET>>

\* A request with a token whose specialty GET failed and whose doctors GET was issued
\* all the same, once each
C11_Witness ==
    \E r \in DOMAIN reqs :
        /\ reqs[r].pc = "done"
        /\ ~NoTokenIn(reqs[r].authorization)
        /\ reqs[r].spec_failed
        /\ reqs[r].calls = <<SpecialtiesGET, DoctorsGET>>
        /\ reqs[r].response.status = 200

=============================================================================
